---- MODULE Spec2Model ----
(***************************************************************************)
(* The match engine of quickmatch (src/src/lib.rs): the dual index built   *)
(* by QuickMatch::new_with and the query path of QuickMatch::matches_with, *)
(* one action per block of the function.  A string is a sequence of        *)
(* characters; an ASCII character is a one-character string and a          *)
(* non-ASCII character is written by its code point ("U+00E9").  An item   *)
(* handle, a pointer to the str, is the item's index in the input slice.   *)
(***************************************************************************)
EXTENDS Integers, Sequences, FiniteSets, TLC

\* ------------------------------------------------------------------ bounds
\* trigram_budget ranges over 0..MaxBudget and limit over 1..MaxLimit for the
\* small corpus; the example corpus runs under the default configuration.
MaxBudget == 5
MaxLimit == 2

\* ------------------------------------------------------- program constants
DEFAULT_SEPARATORS == {"_", "-", " "}
DEFAULT_TRIGRAM_BUDGET == 6
DEFAULT_LIMIT == 100
\* new_with: max_query_len + 6, max_word_len + 4, max_word_count = max_word_len + 2
QueryLenSlack == 6
WordLenSlack == 4
WordCountSlack == 2
\* with_trigram_budget: clamp(0, 20)
MaxTrigramBudget == 20
\* word.len() >= 3: the shortest word that has a trigram
TrigramLen == 3

\* ------------------------------------------------------------- characters
UpperAlpha == <<"A","B","C","D","E","F","G","H","I","J","K","L","M",
                "N","O","P","Q","R","S","T","U","V","W","X","Y","Z">>
LowerAlpha == <<"a","b","c","d","e","f","g","h","i","j","k","l","m",
                "n","o","p","q","r","s","t","u","v","w","x","y","z">>

\* The non-ASCII characters of the model with their UTF-8 byte lengths.
Utf8Width == ("U+00E9" :> 2) @@ ("U+00A0" :> 2) @@ ("U+20AC" :> 3)

\* char::is_ascii
IsAscii(c) == c \notin DOMAIN Utf8Width

\* char::is_whitespace, as str::trim uses it: the ASCII space and the
\* no-break space U+00A0 are the white space of the model's alphabet.
IsWhitespace(c) == c \in {" ", "U+00A0"}

\* char::to_ascii_lowercase / to_ascii_uppercase
ToAsciiLowercase(c) ==
    IF \E k \in 1..26 : UpperAlpha[k] = c
    THEN LowerAlpha[CHOOSE k \in 1..26 : UpperAlpha[k] = c]
    ELSE c
ToAsciiUppercase(c) ==
    IF \E k \in 1..26 : LowerAlpha[k] = c
    THEN UpperAlpha[CHOOSE k \in 1..26 : LowerAlpha[k] = c]
    ELSE c

Range(s) == {s[i] : i \in DOMAIN s}
Max2(a, b) == IF a >= b THEN a ELSE b

\* str::len: the length in bytes
RECURSIVE ByteLen(_)
ByteLen(s) ==
    IF s = <<>> THEN 0
    ELSE (IF IsAscii(Head(s)) THEN 1 ELSE Utf8Width[Head(s)]) + ByteLen(Tail(s))

\* str::trim
RECURSIVE TrimStart(_)
TrimStart(s) ==
    IF s # <<>> /\ IsWhitespace(Head(s)) THEN TrimStart(Tail(s)) ELSE s
RECURSIVE TrimEnd(_)
TrimEnd(s) ==
    IF s # <<>> /\ IsWhitespace(s[Len(s)])
    THEN TrimEnd(SubSeq(s, 1, Len(s) - 1)) ELSE s
Trim(s) == TrimEnd(TrimStart(s))

\* str::split(separators): the pieces between separators, empty ones included
RECURSIVE SplitFrom(_, _, _)
SplitFrom(s, seps, cur) ==
    IF s = <<>> THEN <<cur>>
    ELSE IF Head(s) \in seps THEN <<cur>> \o SplitFrom(Tail(s), seps, <<>>)
    ELSE SplitFrom(Tail(s), seps, Append(cur, Head(s)))
Split(s, seps) == SplitFrom(s, seps, <<>>)

\* chars.windows(3)
Windows(w) == {SubSeq(w, i, i + 2) : i \in 1..(Len(w) - 2)}

\* ---------------------------------------------------------------- indexer
\* The non-empty words of an item (new_with, lines 35-39).
ItemWords(item, seps) == {w \in Range(Split(item, seps)) : w # <<>>}

\* Trigrams of the words of at least 3 bytes (lines 45-53).
ItemTrigrams(item, seps) ==
    UNION {Windows(w) : w \in {v \in ItemWords(item, seps) : ByteLen(v) >= TrigramLen}}

\* usize::max folded over a set of lengths, from 0
MaxOf(S) == IF S = {} THEN 0 ELSE CHOOSE m \in S : \A x \in S : x <= m

\* QuickMatch::new_with
NewWith(items, config) ==
    LET seps == config.separators
        handles == 1..Len(items)
        allWords == UNION {ItemWords(items[i], seps) : i \in handles}
        allTrigrams == UNION {ItemTrigrams(items[i], seps) : i \in handles}
        max_query_len == MaxOf({ByteLen(items[i]) : i \in handles})
        max_word_len ==
            MaxOf({ByteLen(items[i]) : i \in {j \in handles : ItemWords(items[j], seps) # {}}})
    IN [ items |-> items,
         config |-> config,
         max_query_len |-> max_query_len + QueryLenSlack,
         max_word_len |-> max_word_len + WordLenSlack,
         max_word_count |-> max_word_len + WordCountSlack,
         word_index |-> [w \in allWords |->
                           {i \in handles : w \in ItemWords(items[i], seps)}],
         trigram_index |-> [t \in allTrigrams |->
                           {i \in handles : t \in ItemTrigrams(items[i], seps)}] ]

\* QuickMatchConfig::default, with_limit, with_trigram_budget
DefaultConfig ==
    [separators |-> DEFAULT_SEPARATORS, limit |-> DEFAULT_LIMIT,
     trigram_budget |-> DEFAULT_TRIGRAM_BUDGET]
WithLimit(config, limit) == [config EXCEPT !.limit = Max2(limit, 1)]
WithTrigramBudget(config, b) ==
    [config EXCEPT !.trigram_budget = IF b > MaxTrigramBudget THEN MaxTrigramBudget ELSE b]

\* ----------------------------------------------------------- query planner
\* NormalizeQuery that keeps the non-ASCII characters.
NormalizeQueryKeepNonAscii(q) ==
    [i \in 1..Len(Trim(q)) |-> ToAsciiLowercase(Trim(q)[i])]

\* NormalizeQuery without the ASCII lower-case fold.
NormalizeQueryNoFold(q) == SelectSeq(Trim(q), IsAscii)

\* matches_with, lines 92-97: trim, drop the non-ASCII characters, fold to
\* ASCII lower case.
NormalizeQuery(q) ==
    LET kept == SelectSeq(Trim(q), IsAscii)
    IN [i \in 1..Len(kept) |-> ToAsciiLowercase(kept[i])]

RECURSIVE Dedup(_, _)
\* the distinct elements of ws in the order of their first occurrence
Dedup(ws, seen) ==
    IF ws = <<>> THEN <<>>
    ELSE IF Head(ws) \in seen THEN Dedup(Tail(ws), seen)
    ELSE <<Head(ws)>> \o Dedup(Tail(ws), seen \cup {Head(ws)})

\* lines 98-101: the set of the non-empty words of at most max_word_len bytes,
\* listed in the order of their first occurrence in the query.
QueryWords(normalized, seps, max_word_len) ==
    Dedup(SelectSeq(Split(normalized, seps),
                    LAMBDA w : w # <<>> /\ ByteLen(w) <= max_word_len), {})

Reverse(s) == [i \in 1..Len(s) |-> s[Len(s) + 1 - i]]

\* The order in which the FxHashSet of words is iterated (line 113): the hash
\* order is a fixed function of the set, here the order of first occurrence or
\* its reverse, as the engine's iteration order says.
IterWords(ws, order) == IF order = "rev" THEN Reverse(ws) ELSE ws

\* EligibleUnknown with the length test off by one (>= 2).
EligibleUnknownShort(word, accepted, trigram_budget) ==
    ByteLen(word) >= TrigramLen - 1 /\ accepted < trigram_budget

\* line 116: an unknown word is kept for trigram scoring
EligibleUnknown(word, accepted, trigram_budget) ==
    ByteLen(word) >= TrigramLen /\ accepted < trigram_budget

RECURSIVE ClassifyWords(_, _, _, _)
\* lines 113-119: the known words (keys of the word index) and the accepted
\* unknown words, both in iteration order
ClassifyWords(ws, acc, word_index, trigram_budget) ==
    IF ws = <<>> THEN acc
    ELSE LET word == Head(ws) IN
         ClassifyWords(Tail(ws),
            IF word \in DOMAIN word_index
            THEN [acc EXCEPT !.known = Append(@, word)]
            ELSE IF EligibleUnknown(word, Len(acc.unknown), trigram_budget)
                 THEN [acc EXCEPT !.unknown = Append(@, word)]
                 ELSE acc,
            word_index, trigram_budget)

\* lines 121-134: the postings are sorted by descending size, the smallest is
\* popped and the others retain-filter it (the early exit leaves it empty).
Intersect(postings) ==
    LET smallest == CHOOSE p \in Range(postings) :
                        \A o \in Range(postings) : Cardinality(p) <= Cardinality(o)
    IN {ptr \in smallest : \A k \in DOMAIN postings : ptr \in postings[k]}

\* usize::saturating_sub
SaturatingSub(a, b) == IF a >= b THEN a - b ELSE 0

\* -------------------------------------------------------- trigram scheduler
\* BudgetExhausted with the comparison off by one (> for >=).
BudgetExhaustedOffByOne(trigram_count, trigram_budget) == trigram_count > trigram_budget

\* line 173: the budget check at the head of each (round, word) step
BudgetExhausted(trigram_count, trigram_budget) == trigram_count >= trigram_budget

\* lines 180-203: the window start of a round for a word, -1 for `continue`
SchedulePos(round, max_pos) ==
    IF round = 0 THEN 0
    ELSE IF round = 1 /\ max_pos > 0 THEN max_pos
    ELSE IF round = 2 /\ max_pos > 1 THEN max_pos \div 2
    ELSE IF max_pos > 2 THEN
        LET mid == max_pos \div 2
            offset == (round - 2) \div 2
            p == IF round % 2 = 1 THEN SaturatingSub(mid, offset) ELSE mid + offset
        IN IF p = 0 \/ p >= max_pos \/ p = mid THEN -1 ELSE p
    ELSE -1

\* ------------------------------------------------------------ scorer/ranker
\* lines 160-164: every pooled item starts with score 1
SeedScores(some_pool, pool) == IF some_pool THEN [i \in pool |-> 1] ELSE <<>>

\* PoolScoreUpdate that inserts the items it has not seen, as open mode does.
PoolScoreUpdateInserting(scores, posting) ==
    [i \in DOMAIN scores \cup posting |->
        (IF i \in DOMAIN scores THEN scores[i] ELSE 0) + (IF i \in posting THEN 1 ELSE 0)]

\* lines 219-223: pool mode, only the items already scored gain a point
PoolScoreUpdate(scores, posting) ==
    [i \in DOMAIN scores |-> IF i \in posting THEN scores[i] + 1 ELSE scores[i]]

\* lines 225-230: open mode, the items of plausible length gain a point
OpenScoreUpdate(scores, posting, items, min_len) ==
    LET plausible == {i \in posting : ByteLen(items[i]) >= min_len}
    IN [i \in DOMAIN scores \cup plausible |->
          (IF i \in DOMAIN scores THEN scores[i] ELSE 0)
          + (IF i \in plausible THEN 1 ELSE 0)]

\* MinScore with the division rounding down.
MinScoreFloor(trigram_count) == Max2(trigram_count \div 2, 1)

\* line 239: trigram_count.div_ceil(2).max(1)
MinScore(trigram_count) == Max2((trigram_count + 1) \div 2, 1)

\* The order in which a set of handles is iterated and in which the unstable
\* selection and sort leave equal keys: ascending or descending handles.
IterBefore(a, b, order) == IF order = "desc" THEN a > b ELSE a < b

\* The elements of S as the sequence sorted by a strict total order, given as
\* the set of the pairs <<a, b>> with a before b.
Sorted(S, before) ==
    [k \in 1..Cardinality(S) |->
        CHOOSE x \in S : Cardinality({y \in S : <<y, x>> \in before}) = k - 1]

\* Vec::truncate / Iterator::take
Take(s, n) == IF Len(s) > n THEN SubSeq(s, 1, n) ELSE s

\* lines 149/153: the key of the exact path, the item's length
ShorterItem(a, b, items) == ByteLen(items[a]) < ByteLen(items[b])

\* BetterRanked with the score comparison the wrong way round.
BetterRankedAscending(a, b, scores, items) ==
    \/ scores[a] < scores[b]
    \/ scores[a] = scores[b] /\ ByteLen(items[a]) < ByteLen(items[b])

\* lines 247-253: b.1.cmp(&a.1).then_with(|| a.0.len().cmp(&b.0.len()))
BetterRanked(a, b, scores, items) ==
    \/ scores[a] > scores[b]
    \/ scores[a] = scores[b] /\ ByteLen(items[a]) < ByteLen(items[b])

\* lines 142-155: the pool, the `limit` shortest selected and sorted by length
ExactResults(pool, limit, items, order) ==
    Take(Sorted(pool, {ab \in pool \X pool :
                  \/ ShorterItem(ab[1], ab[2], items)
                  \/ ~ShorterItem(ab[2], ab[1], items) /\ IterBefore(ab[1], ab[2], order)}),
         limit)

\* lines 239-259: the items that reach min_score, the `limit` best selected and
\* sorted by (score descending, length ascending)
ScoredResults(scores, trigram_count, limit, items, order) ==
    LET kept == {i \in DOMAIN scores : scores[i] >= MinScore(trigram_count)}
    IN Take(Sorted(kept, {ab \in kept \X kept :
                     \/ BetterRanked(ab[1], ab[2], scores, items)
                     \/ /\ ~BetterRanked(ab[2], ab[1], scores, items)
                        /\ IterBefore(ab[1], ab[2], order)}),
            limit)

\* ------------------------------------------------------------------ inputs
\* examples/autocomplete.rs, lines 6-25: the product names, lower-cased
ExampleProducts == <<
    <<"a", "p", "p", "l", "e", " ", "i", "p", "h", "o", "n", "e", " ", "1", "5", " ", "p", "r", "o">>,
    <<"a", "p", "p", "l", "e", " ", "m", "a", "c", "b", "o", "o", "k", " ", "p", "r", "o", " ", "1", "6">>,
    <<"a", "p", "p", "l", "e", " ", "a", "i", "r", "p", "o", "d", "s", " ", "p", "r", "o">>,
    <<"s", "a", "m", "s", "u", "n", "g", " ", "g", "a", "l", "a", "x", "y", " ", "s", "2", "4">>,
    <<"s", "a", "m", "s", "u", "n", "g", " ", "g", "a", "l", "a", "x", "y", " ", "t", "a", "b">>,
    <<"s", "o", "n", "y", " ", "p", "l", "a", "y", "s", "t", "a", "t", "i", "o", "n", " ", "5">>,
    <<"s", "o", "n", "y", " ", "w", "h", "-", "1", "0", "0", "0", "x", "m", "5", " ", "h", "e", "a", "d", "p", "h", "o", "n", "e", "s">>,
    <<"m", "i", "c", "r", "o", "s", "o", "f", "t", " ", "s", "u", "r", "f", "a", "c", "e", " ", "p", "r", "o">>,
    <<"m", "i", "c", "r", "o", "s", "o", "f", "t", " ", "x", "b", "o", "x", " ", "s", "e", "r", "i", "e", "s", " ", "x">>,
    <<"d", "e", "l", "l", " ", "x", "p", "s", " ", "1", "3", " ", "l", "a", "p", "t", "o", "p">>,
    <<"d", "e", "l", "l", " ", "u", "l", "t", "r", "a", "s", "h", "a", "r", "p", " ", "m", "o", "n", "i", "t", "o", "r">>,
    <<"l", "o", "g", "i", "t", "e", "c", "h", " ", "m", "x", " ", "m", "a", "s", "t", "e", "r", " ", "m", "o", "u", "s", "e">>,
    <<"l", "o", "g", "i", "t", "e", "c", "h", " ", "m", "e", "c", "h", "a", "n", "i", "c", "a", "l", " ", "k", "e", "y", "b", "o", "a", "r", "d">>,
    <<"c", "a", "n", "o", "n", " ", "e", "o", "s", " ", "r", "5", " ", "c", "a", "m", "e", "r", "a">>,
    <<"n", "i", "k", "o", "n", " ", "z", "9", " ", "c", "a", "m", "e", "r", "a">>,
    <<"g", "o", "p", "r", "o", " ", "h", "e", "r", "o", " ", "1", "2">> >>

\* A small corpus with equal-length items, shared words and trigrams, and a
\* word too short to have a trigram.
SmallCorpus == <<
    <<"a", "p", "p", "l", "e", " ", "p", "r", "o">>,
    <<"a", "p", "p", "l", "e", " ", "p", "i", "e">>,
    <<"a", "p", "p", "l", "e", " ", "m", "a", "c", "b", "o", "o", "k", " ", "p", "r", "o">>,
    <<"m", "a", "c", "b", "o", "o", "k", " ", "a", "i", "r">>,
    <<"m", "a", "c", "b", "o", "o", "k">>,
    <<"a", "p", "p", "l", "e", " ", "t", "v">> >>

\* The first query of a session on the small corpus: exact, pooled and open
\* queries, typos that miss and that hit, short and over-long ones.
SmallQueries == {
    <<"a", "p", "p", "l", "e">>,
    <<"A", "p", "p", "l", "e", " ", "P", "r", "o">>,
    <<"a", "p", "p", "l", "e", "-", "m", "a", "c", "b", "o", "o", "k", "_", "p", "r", "o">>,
    <<"a", "p", "p", "l", "e", " ", "m", "a", "c", "b", "o", "k">>,
    <<"m", "a", "c", "b", "o", "k">>,
    <<"m", "a", "c", "a", "i", "r", " ", "p", "i", "e", "x">>,
    <<"m", "x", "c", "b", "o", "o", "k", " ", "a", "p", "p", "e", "l">>,
    <<"m", "a", "c", "b", "o", "k", "k">>,
    <<"a", "p", "p", "l", "e", " ", "p", "x">>,
    <<"a", "p", "p", "l", "e", " ", "t", "v">>,
    <<"a", "p", "l", "e">>,
    <<"p", "l", "e">>,
    <<"p", "l", "e", " ", "m", "a", "c", "a", "i", "r", " ", "p", "r", "o", "x">>,
    <<"a", "p", "p", "l", "e", " ", "m", "a", "c", "a", "i", "r", " ", "p", "r", "o", "x">>,
    <<"a", "p", "p", "l", "e", " ", "m", "a", "c", "b", "o", "o", "k", " ", "p", "r", "o", " ", "a", "p", "p", "l">>,
    <<>> }

\* The first query of a session on the example corpus.
ExampleQueries == {
    <<"h", "e", "d", "p", "h", "o", "n", "e", "s">>,
    <<"h", "e", "a", "d", "p", "h", "o", "n", "e", "z">>,
    <<"h", "e", "a", "d", "p", "h", "o", "n", "e", "s">>,
    <<"h", "e", "d", "p", "h", "o", "n", "e", "s", " ", "s", "o", "n", "y">>,
    <<"a", "p", "p", "l", "e">>,
    <<"a", "p", "p", "l", "e", " ", "p", "r", "o">>,
    <<"h", "e", "a", "d", "p", "h", "x", "n", "e", "s">>,
    <<"x", "z", "q", "x", "z", "q", "x", "z", "q">> }

\* Suffixes made only of non-ASCII characters.
NonAsciiSuffixes == { <<"U+00E9">>, <<"U+20AC", "U+00E9">> }

ToUpper(s) == [i \in 1..Len(s) |-> ToAsciiUppercase(s[i])]
Pad(s) == <<" ", " ">> \o s \o <<" ", " ">>

\* The follow-up queries of a session: the query upper-cased, padded with two
\* spaces on each side, and extended by a non-ASCII suffix.
Variants(q) == {ToUpper(q), Pad(q)} \cup {q \o x : x \in NonAsciiSuffixes}

\* ------------------------------------------------------------------- state
VARIABLES
    engine,             \* the QuickMatch struct: items, config, caps, indexes
    iter,               \* the iteration order of the hash sets of this engine
    scenario,           \* which corpus the engine was built from
    base,               \* the first call of the session and what it returned
    pc,                 \* the position in matches_with
    query,              \* the argument of the running call
    words,              \* the query's word set, in iteration order
    known_words,        \* the words found in the word index
    unknown_words,      \* the accepted unknown words
    some_pool,          \* pool.is_some()
    pool,               \* the intersection of the known words' postings
    min_len,            \* query_len.saturating_sub(3)
    scores,             \* item -> score
    trigram_count,      \* the trigrams found in the trigram index
    visited,            \* the trigrams already probed
    round,              \* the round of the outer loop
    wi,                 \* the next unknown word of the inner loop, from 1
    processed_trigrams, \* whether this round found a trigram in the index
    results,            \* the value returned
    path,               \* how the call ended: rejected, empty, exact, pool, open
    lookups,            \* history: calls of trigram_index.get in this call
    hits,               \* history: the probed trigrams found in the index
    probes,             \* history: the (round, word, pos) windows read, whether
                        \* the trigram was fresh, and trigram_count at the read
    panicked            \* an arithmetic underflow or an index out of range

vars == <<engine, iter, scenario, base, pc, query, words, known_words,
          unknown_words, some_pool, pool, min_len, scores, trigram_count,
          visited, round, wi, processed_trigrams, results, path, lookups,
          hits, probes, panicked>>

engineVars == <<engine, iter, scenario>>
classVars == <<words, known_words, unknown_words, some_pool, pool, min_len>>
loopVars == <<scores, trigram_count, visited, round, wi, processed_trigrams>>
histVars == <<lookups, hits, probes>>

NoBase == [active |-> FALSE, query |-> <<>>, results |-> <<>>, path |-> "none"]

\* The locals of a call before it starts.
FreshCall ==
    /\ query = <<>> /\ words = <<>> /\ known_words = <<>> /\ unknown_words = <<>>
    /\ some_pool = FALSE /\ pool = {} /\ min_len = 0 /\ scores = <<>>
    /\ trigram_count = 0 /\ visited = {} /\ round = 0 /\ wi = 1
    /\ processed_trigrams = FALSE /\ results = <<>> /\ path = "none"
    /\ lookups = 0 /\ hits = {} /\ probes = {} /\ panicked = FALSE

\* The engines: the small corpus under every budget and limit within the
\* bounds, and the example corpus under the default configuration.
Init ==
    /\ \/ /\ scenario = "small"
          /\ \E b \in 0..MaxBudget, l \in 1..MaxLimit :
                engine = NewWith(SmallCorpus,
                                 WithTrigramBudget(WithLimit(DefaultConfig, l), b))
       \/ /\ scenario = "example"
          /\ engine = NewWith(ExampleProducts, DefaultConfig)
    /\ iter \in [items : {"asc", "desc"}, words : {"fwd", "rev"}]
    /\ base = NoBase
    /\ pc = "idle"
    /\ FreshCall

limit == engine.config.limit
trigram_budget == engine.config.trigram_budget

\* ----------------------------------------------------------------- actions
\* matches_with, lines 83-105: the guards, the normalisation and the word set.
\* The first call of a session takes a query of the scenario, the second a
\* variant of the first.
Enter(q) ==
    /\ pc = "idle"
    /\ query' = q
    /\ LET ws == IterWords(QueryWords(NormalizeQuery(q), engine.config.separators,
                                      engine.max_word_len), iter.words)
           rejected == \/ limit = 0 \/ q = <<>>
                       \/ ByteLen(q) > engine.max_query_len
                       \/ ws = <<>> \/ Len(ws) > engine.max_word_count
       IN /\ words' = IF rejected THEN <<>> ELSE ws
          /\ pc' = IF rejected THEN "done" ELSE "classify"
          /\ path' = IF rejected THEN "rejected" ELSE path
    /\ UNCHANGED <<engineVars, base, known_words, unknown_words, some_pool, pool,
                   min_len, loopVars, results, histVars, panicked>>

\* lines 107-135: min_len, the known and unknown words, the pool
Classify ==
    /\ pc = "classify"
    /\ LET c == ClassifyWords(words, [known |-> <<>>, unknown |-> <<>>],
                              engine.word_index, trigram_budget)
           words_to_intersect ==
               [k \in 1..Len(c.known) |-> engine.word_index[c.known[k]]]
       IN /\ known_words' = c.known
          /\ unknown_words' = c.unknown
          /\ some_pool' = (c.known # <<>>)
          /\ pool' = IF c.known # <<>> THEN Intersect(words_to_intersect) ELSE {}
    /\ min_len' = SaturatingSub(ByteLen(query), 3)
    /\ pc' = "dispatch"
    /\ UNCHANGED <<engineVars, base, query, words, loopVars, results, path,
                   histVars, panicked>>

\* lines 137-156: no unknown word, the exact-match path
ExactPath ==
    /\ pc = "dispatch"
    /\ unknown_words = <<>>
    /\ results' = IF some_pool
                  THEN ExactResults(pool, limit, engine.items, iter.items)
                  ELSE <<>>
    /\ path' = IF some_pool THEN "exact" ELSE "empty"
    /\ pc' = "done"
    /\ UNCHANGED <<engineVars, base, query, classVars, loopVars, histVars, panicked>>

\* lines 158-167: the scratch state of the trigram path
StartScoring ==
    /\ pc = "dispatch"
    /\ unknown_words # <<>>
    /\ scores' = SeedScores(some_pool, pool)
    /\ trigram_count' = 0
    /\ visited' = {}
    /\ round' = 0
    /\ path' = IF some_pool THEN "pool" ELSE "open"
    /\ pc' = "round"
    /\ UNCHANGED <<engineVars, base, query, classVars, wi, processed_trigrams,
                   results, histVars, panicked>>

\* lines 169-170: the head of the outer loop, `for round in 0..trigram_budget`
RoundStart ==
    /\ pc = "round"
    /\ IF round < trigram_budget
       THEN /\ processed_trigrams' = FALSE
            /\ wi' = 1
            /\ pc' = "word"
       ELSE /\ pc' = "rank"
            /\ UNCHANGED <<processed_trigrams, wi>>
    /\ UNCHANGED <<engineVars, base, query, classVars, scores, trigram_count,
                   visited, round, results, path, histVars, panicked>>

\* lines 172-232: one (round, word) step of the inner loop
WordStep ==
    /\ pc = "word"
    /\ wi <= Len(unknown_words)
    /\ LET chars == unknown_words[wi]
           len == Len(chars)
           exhausted == BudgetExhausted(trigram_count, trigram_budget)
           underflow == len < 3
           max_pos == len - 3
           pos == SchedulePos(round, max_pos)
           skip == pos = -1
           out_of_range == ~skip /\ (pos < 0 \/ pos + 2 >= len)
           panic == ~exhausted /\ (underflow \/ out_of_range)
           reads == ~exhausted /\ ~panic /\ ~skip
           trigram == SubSeq(chars, pos + 1, pos + 3)
           fresh == reads /\ trigram \notin visited
           found == fresh /\ trigram \in DOMAIN engine.trigram_index
       IN /\ pc' = IF exhausted THEN "rank" ELSE IF panic THEN "panic" ELSE "word"
          /\ panicked' = (panicked \/ panic)
          /\ wi' = IF exhausted \/ panic THEN wi ELSE wi + 1
          /\ probes' = IF reads
                       THEN probes \cup {[round |-> round, word |-> wi, pos |-> pos,
                                         fresh |-> fresh, charged |-> trigram_count]}
                       ELSE probes
          /\ visited' = IF fresh THEN visited \cup {trigram} ELSE visited
          /\ lookups' = IF fresh THEN lookups + 1 ELSE lookups
          /\ hits' = IF found THEN hits \cup {trigram} ELSE hits
          /\ processed_trigrams' = (processed_trigrams \/ found)
          /\ trigram_count' = IF found THEN trigram_count + 1 ELSE trigram_count
          /\ scores' = IF ~found THEN scores
                       ELSE IF some_pool
                       THEN PoolScoreUpdate(scores, engine.trigram_index[trigram])
                       ELSE OpenScoreUpdate(scores, engine.trigram_index[trigram],
                                            engine.items, min_len)
    /\ UNCHANGED <<engineVars, base, query, classVars, round, results, path>>

\* lines 234-237: the end of a round; a round that found nothing ends the loop
RoundEnd ==
    /\ pc = "word"
    /\ wi > Len(unknown_words)
    /\ IF ~processed_trigrams
       THEN /\ pc' = "rank"
            /\ round' = round
       ELSE /\ pc' = "round"
            /\ round' = round + 1
    /\ UNCHANGED <<engineVars, base, query, classVars, scores, trigram_count,
                   visited, wi, processed_trigrams, results, path, histVars, panicked>>

\* lines 239-259: threshold, selection and order of the scored items
Rank ==
    /\ pc = "rank"
    /\ results' = ScoredResults(scores, trigram_count, limit, engine.items, iter.items)
    /\ pc' = "done"
    /\ UNCHANGED <<engineVars, base, query, classVars, loopVars, path, histVars,
                   panicked>>

\* The caller takes the list; the first call of a session is remembered for
\* the second, and after the second the session ends.
Return ==
    /\ pc = "done"
    /\ pc' = "idle"
    /\ base' = IF base.active THEN NoBase
               ELSE [active |-> TRUE, query |-> query, results |-> results,
                     path |-> path]
    /\ query' = <<>> /\ words' = <<>> /\ known_words' = <<>> /\ unknown_words' = <<>>
    /\ some_pool' = FALSE /\ pool' = {} /\ min_len' = 0 /\ scores' = <<>>
    /\ trigram_count' = 0 /\ visited' = {} /\ round' = 0 /\ wi' = 1
    /\ processed_trigrams' = FALSE /\ results' = <<>> /\ path' = "none"
    /\ lookups' = 0 /\ hits' = {} /\ probes' = {} /\ panicked' = FALSE
    /\ UNCHANGED engineVars

\* The queries the session may send next.
NextQueries ==
    IF base.active THEN Variants(base.query)
    ELSE IF scenario = "example" THEN ExampleQueries ELSE SmallQueries

Next ==
    \/ \E q \in NextQueries : Enter(q)
    \/ Classify
    \/ ExactPath
    \/ StartScoring
    \/ RoundStart
    \/ WordStep
    \/ RoundEnd
    \/ Rank
    \/ Return

Spec == Init /\ [][Next]_vars

\* ------------------------------------------------------------------ claims
Done == pc = "done"
Scored == path \in {"pool", "open"}
ItemLen(i) == ByteLen(engine.items[i])
ItemTokens(i) == ItemWords(engine.items[i], engine.config.separators)

\* the words of the running query that are a whole token of some item
KnownQueryWords ==
    {w \in Range(words) : \E i \in 1..Len(engine.items) : w \in ItemTokens(i)}

\* the number of hit trigrams whose posting set holds item i
HitsContaining(i) == Cardinality({t \in hits : i \in engine.trigram_index[t]})

C2_HedphonesFindsHeadphones ==
    (Done /\ scenario = "example" /\ query = <<"h", "e", "d", "p", "h", "o", "n", "e", "s">>)
        => \E k \in DOMAIN results :
              engine.items[results[k]] = <<"s", "o", "n", "y", " ", "w", "h", "-", "1", "0", "0", "0", "x", "m", "5", " ", "h", "e", "a", "d", "p", "h", "o", "n", "e", "s">>

\* C3: every returned item holds every known word of the query as a whole
\* token, on the exact path and when unknown words are trigram-scored.
C3_PoolPurity ==
    (Done /\ KnownQueryWords # {})
        => \A k \in DOMAIN results : KnownQueryWords \subseteq ItemTokens(results[k])

C3_Witness ==
    /\ Done /\ path = "pool" /\ results # <<>>
    /\ \E t \in hits : engine.trigram_index[t] \ pool # {}

\* the items that qualify for the result: on the trigram path those whose
\* score reaches max(1, ceil(hits / 2)), on the exact path the pooled ones
Qualifying ==
    IF Scored
    THEN {i \in DOMAIN scores : scores[i] >= 1 /\ 2 * scores[i] >= trigram_count}
    ELSE IF path = "exact"
    THEN {i \in 1..Len(engine.items) : KnownQueryWords \subseteq ItemTokens(i)}
    ELSE {}

\* a ranks strictly better than b: by (score descending, length ascending) on
\* the trigram path, by length ascending on the exact path
StrictlyBetter(a, b) ==
    IF Scored
    THEN \/ scores[a] > scores[b]
         \/ scores[a] = scores[b] /\ ItemLen(a) < ItemLen(b)
    ELSE ItemLen(a) < ItemLen(b)

\* C4: the result has at most `limit` items, all qualifying and each once; it
\* is ordered by the ranking key, and no qualifying item left out ranks
\* strictly better than a returned one (so it is the best `limit` of them).
C4_BestLimit ==
    Done =>
        /\ Len(results) <= limit
        /\ Range(results) \subseteq Qualifying
        /\ Cardinality(Range(results)) = Len(results)
        /\ Len(results) = IF Cardinality(Qualifying) < limit
                          THEN Cardinality(Qualifying) ELSE limit
        /\ \A j, k \in DOMAIN results :
              j < k => ~StrictlyBetter(results[k], results[j])
        /\ \A i \in Qualifying \ Range(results) :
              \A k \in DOMAIN results : ~StrictlyBetter(i, results[k])

C4_Witness ==
    /\ Done /\ path = "open" /\ Len(results) = limit
    /\ \E i \in Qualifying \ Range(results) :
          \E k \in DOMAIN results : StrictlyBetter(results[k], i)

\* C5 as stated: on the trigram path every returned item is in the posting
\* sets of at least ceil(hit_count / 2) of the hit trigrams, in pool mode too.
C5_HalfOfHits ==
    (Done /\ Scored)
        => \A k \in DOMAIN results :
              /\ 2 * HitsContaining(results[k]) >= Cardinality(hits)
              /\ hits # {} => HitsContaining(results[k]) >= 1

\* C5 amended: in open mode every returned item is in the posting sets of at
\* least ceil(hit_count / 2) of the hit trigrams (and of at least one); in pool
\* mode the seed of 1 counts towards the threshold, so a returned item is in
\* the posting sets of at least ceil(hit_count / 2) - 1 of them.
C5_HalfOfHitsOpenSeededPool ==
    (Done /\ Scored)
        => \A k \in DOMAIN results :
              IF path = "open"
              THEN /\ 2 * HitsContaining(results[k]) >= Cardinality(hits)
                   /\ HitsContaining(results[k]) >= 1
              ELSE 2 * (HitsContaining(results[k]) + 1) >= Cardinality(hits)

C5_Witness ==
    /\ Done /\ path = "pool" /\ Cardinality(hits) >= 3
    /\ \E k \in DOMAIN results :
          2 * HitsContaining(results[k]) < Cardinality(hits)
    /\ \E i \in pool : i \notin Range(results)

\* C6 as stated: matches(s) returns the same list as matches(s upper-cased)
\* and as matches(s padded with two spaces on each side).
C6_CaseAndPadding ==
    (Done /\ base.active /\ query \in {ToUpper(base.query), Pad(base.query)})
        => results = base.results

\* C6 amended: matches(s) returns the same list as matches(s upper-cased); it
\* returns the same list as matches(s padded) provided the padded query is
\* still within max_query_len and s is not scored in open mode: the length
\* guard and the open-mode length filter use the byte length of the query as
\* given, before it is trimmed.
C6_CaseAndPaddingWithinCaps ==
    (Done /\ base.active)
        => /\ query = ToUpper(base.query) => results = base.results
           /\ ( /\ query = Pad(base.query)
                /\ ByteLen(query) <= engine.max_query_len
                /\ base.path # "open" ) => results = base.results

C6_Witness ==
    /\ Done /\ base.active /\ results # <<>>
    /\ query = ToUpper(base.query) /\ query # base.query
    /\ Scored

\* C7 as stated: appending a suffix of non-ASCII characters to a query within
\* max_query_len yields the same result list.
C7_NonAsciiSuffixInert ==
    ( /\ Done /\ base.active
      /\ ByteLen(base.query) <= engine.max_query_len
      /\ \E x \in NonAsciiSuffixes : query = base.query \o x )
        => results = base.results

\* C7 amended: appending a suffix of non-ASCII characters yields the same
\* result list provided the extended query is itself within max_query_len (in
\* bytes) and the query is not scored in open mode, whose length filter uses
\* the byte length of the query before the non-ASCII characters are dropped.
C7_NonAsciiSuffixInertWithinCaps ==
    ( /\ Done /\ base.active
      /\ ByteLen(query) <= engine.max_query_len
      /\ base.path # "open"
      /\ \E x \in NonAsciiSuffixes : query = base.query \o x )
        => results = base.results

C7_Witness ==
    /\ Done /\ base.active /\ results # <<>> /\ Scored
    /\ \E x \in NonAsciiSuffixes : query = base.query \o x

\* C9: the scheduler stops before round trigram_budget only when the budget is
\* exhausted (a probed trigram absent from the index only skips its step), and
\* while budget remains the rounds from 4 on probe the positions fanning out
\* from the midpoint of a word with max_pos > 2.
C9_StopsOnlyOnBudget ==
    (Done /\ Scored)
        => /\ trigram_count >= trigram_budget \/ round >= trigram_budget
           /\ \A w \in DOMAIN unknown_words :
                \A r \in 4..(trigram_budget - 1) :
                   ( /\ trigram_count < trigram_budget
                     /\ Len(unknown_words[w]) - 3 > 2
                     /\ SchedulePos(r, Len(unknown_words[w]) - 3) # -1 )
                   => \E p \in probes : p.round = r /\ p.word = w

\* C10: no call panics: every accepted unknown word has at least 3
\* characters, and every window start the schedule yields, in the rounds run
\* and in any round up to the largest budget, lies in 0..max_pos.
C10_NoPanic ==
    /\ ~panicked
    /\ pc # "panic"
    /\ \A w \in DOMAIN unknown_words :
          /\ Len(unknown_words[w]) >= 3
          /\ \A r \in 0..(MaxTrigramBudget - 1) :
                SchedulePos(r, Len(unknown_words[w]) - 3)
                    \in -1..(Len(unknown_words[w]) - 3)
    /\ \A p \in probes :
          /\ 0 <= p.pos
          /\ p.pos + 3 <= Len(unknown_words[p.word])

C10_Witness ==
    /\ Done /\ Scored
    /\ \E w \in DOMAIN unknown_words : Len(unknown_words[w]) = 3
    /\ \E p \in probes :
          p.round >= 1 /\ p.pos > 0 /\ p.pos = Len(unknown_words[p.word]) - 3

====
